---- MODULE Spec2Model ----
(***************************************************************************)
(* Model of the MITgcm baroclinic-gyre pygeoapi process:                   *)
(*   - gendata (gendata_adapted.py): the forcing-field generator;          *)
(*   - MitgcmBaroclinicGyreProcessor.execute and call_fortran_script       *)
(*     (mitgcm_baroclinic_gyre.py): the run orchestrator.                  *)
(*                                                                         *)
(* Numbers.  Python floats are modelled as exact rationals <<n, d>> in     *)
(* lowest terms (d > 0).  The cast astype('>f4') is modelled by F32, which *)
(* rounds a rational to the nearest IEEE-754 binary32 value (ties to       *)
(* even); the float64 rounding of the intermediate results is not          *)
(* modelled (for the small rationals used here it cannot move a value      *)
(* across a binary32 rounding boundary).  cos of a rational number of      *)
(* turns is kept in an exact canonical form, see CosTurn.                  *)
(***************************************************************************)
EXTENDS Integers, Sequences, FiniteSets, TLC

----------------------------------------------------------------------------
(* Exact rational arithmetic *)

Abs(n) == IF n < 0 THEN -n ELSE n

RECURSIVE Gcd(_, _)
Gcd(a, b) == IF b = 0 THEN a ELSE Gcd(b, a % b)

\* the rational n/d in lowest terms with a positive denominator (d # 0)
Rat(n, d) ==
    LET g == Gcd(Abs(n), Abs(d))
        s == IF d < 0 THEN -1 ELSE 1
    IN  << (s * n) \div g, (s * d) \div g >>

R(i) == << i, 1 >>
RAdd(a, b) == Rat(a[1] * b[2] + b[1] * a[2], a[2] * b[2])
RNeg(a)    == << -a[1], a[2] >>
RSub(a, b) == RAdd(a, RNeg(b))
RMul(a, b) == Rat(a[1] * b[1], a[2] * b[2])
RDiv(a, b) == Rat(a[1] * b[2], a[2] * b[1])
RLt(a, b)  == a[1] * b[2] < b[1] * a[2]
RLe(a, b)  == a[1] * b[2] <= b[1] * a[2]
RAbs(a)    == << Abs(a[1]), a[2] >>
RZero      == R(0)

RECURSIVE Pow2(_)
Pow2(k) == IF k = 0 THEN 1 ELSE 2 * Pow2(k - 1)

\* the largest e with 2^e <= n/d, for n/d >= 1 (counts up) or n/d < 1 (counts down)
RECURSIVE ExpUp(_, _, _)
ExpUp(n, d, e) == IF 2 * d > n THEN e ELSE ExpUp(n, 2 * d, e + 1)
RECURSIVE ExpDown(_, _, _)
ExpDown(n, d, e) == IF n >= d THEN e ELSE ExpDown(2 * n, d, e - 1)
Exponent(n, d) == IF n >= d THEN ExpUp(n, d, 0) ELSE ExpDown(n, d, 0)

\* round-half-to-even of the non-negative rational n/d to an integer
RoundHalfEven(n, d) ==
    LET q == n \div d
        r == n % d
    IN  IF 2 * r < d THEN q
        ELSE IF 2 * r > d THEN q + 1
        ELSE IF q % 2 = 0 THEN q ELSE q + 1

\* binary32 has a 24-bit significand: 1 implicit + MantissaBits stored bits
MantissaBits == 23

\* astype('>f4'): the binary32 value nearest to the rational a, as a rational
F32(a) ==
    IF a[1] = 0 THEN RZero
    ELSE LET n  == Abs(a[1])
             d  == a[2]
             sg == IF a[1] < 0 THEN -1 ELSE 1
             e  == Exponent(n, d)
             sh == MantissaBits - e       \* scale so the significand is in [2^23, 2^24)
             m  == IF sh >= 0 THEN RoundHalfEven(n * Pow2(sh), d)
                              ELSE RoundHalfEven(n, d * Pow2(-sh))
         IN  IF sh >= 0 THEN Rat(sg * m, Pow2(sh))
                        ELSE R(sg * m * Pow2(-sh))

----------------------------------------------------------------------------
(* Real values written to the forcing files.                                *)
(* A value is << coef, turn >> and stands for coef * cos(2*pi*turn), with   *)
(* coef and turn rationals and turn canonical: 0 <= turn < 1/4, and turn is *)
(* 0 whenever the value is rational (cos is 1, 1/2 or 0 there, which is     *)
(* folded into coef).  By Niven's theorem these are the only rational       *)
(* values of cos at a rational number of turns, and no two distinct turns   *)
(* in (0, 1/4) have cosines with a rational ratio, so two values are equal  *)
(* as reals exactly when they are equal as tuples.                          *)

Val(r) == << r, RZero >>
IsRational(v) == v[2] = RZero

\* numpy.cos(2*pi*phi) for a rational number phi of turns
CosTurn(phi) ==
    LET f   == Rat(phi[1] % phi[2], phi[2])                       \* phi mod 1
        g   == IF RLt(Rat(1, 2), f) THEN RSub(R(1), f) ELSE f     \* cos(-x) = cos(x)
        far == RLt(Rat(1, 4), g)                                  \* cos(pi - x) = -cos(x)
        sg  == IF far THEN -1 ELSE 1
        psi == IF far THEN RSub(Rat(1, 2), g) ELSE g
    IN  IF psi = Rat(1, 4) THEN Val(RZero)
        ELSE IF psi = Rat(1, 6) THEN Val(Rat(sg, 2))
        ELSE IF psi = RZero THEN Val(R(sg))
        ELSE << R(sg), psi >>

\* a real value times a rational
VScale(r, v) ==
    IF r = RZero THEN Val(RZero) ELSE << RMul(r, v[1]), v[2] >>

\* astype('>f4') of one cell: rational values are rounded to binary32; an
\* irrational value is kept exact (its rounding is not computed)
CastF4(v) == IF IsRational(v) THEN Val(F32(v[1])) ELSE v

\* bytes per item of dtype '>f4'
ItemSize == 4

\* ndarray.tofile of an (ny, nx) array cast to '>f4': the items in C (row-major)
\* order; a file is the sequence of its items
ToFile(arr, ny, nx) ==
    [k \in 1..(ny * nx) |-> CastF4(arr[(k - 1) \div nx][(k - 1) % nx])]

ByteLen(file) == ItemSize * Len(file)

\* numpy.linspace(start, stop, num), indexed from 0
Linspace(start, stop, num) ==
    LET step == RDiv(RSub(stop, start), R(num - 1))
    IN  [j \in 0..(num - 1) |-> RAdd(start, RMul(R(j), step))]

----------------------------------------------------------------------------
(* gendata(out_path, Ho, nx, ny, xo, yo, dx, dy, tauMax, Tmin, Tmax)        *)
(* a: the record of its arguments (Ho, nx, ny, xo, yo, dx, dy integers;     *)
(* tauMax, Tmin, Tmax rationals)                                            *)

xeast(a)  == a.xo + (a.nx - 2) * a.dx
ynorth(a) == a.yo + (a.ny - 2) * a.dy

\* mutant: the walls at the south and north rows are not set
BathymetryNoRowWalls(a) ==
    [r \in 0..(a.ny - 1) |->
       [c \in 0..(a.nx - 1) |->
          IF c \in {0, a.nx - 1} THEN Val(RZero) ELSE Val(R(-a.Ho))]]

\* h = -Ho * np.ones((ny, nx)); h[:, [0,-1]] = 0; h[[0,-1], :] = 0
Bathymetry(a) ==
    LET h0 == [r \in 0..(a.ny - 1) |-> [c \in 0..(a.nx - 1) |-> Val(R(-a.Ho))]]
        h1 == [r \in 0..(a.ny - 1) |->
                 [c \in 0..(a.nx - 1) |->
                    IF c \in {0, a.nx - 1} THEN Val(RZero) ELSE h0[r][c]]]
        h2 == [r \in 0..(a.ny - 1) |->
                 IF r \in {0, a.ny - 1}
                 THEN [c \in 0..(a.nx - 1) |-> Val(RZero)]
                 ELSE h1[r]]
    IN  h2

\* mutant: the half-cell offset is left out
YCNoOffset(a) == Linspace(R(a.yo - a.dy), R(ynorth(a)), a.ny)

\* y = np.linspace(yo-dy, ynorth, ny) + dy/2
YC(a) ==
    LET lin == Linspace(R(a.yo - a.dy), R(ynorth(a)), a.ny)
    IN  [j \in 0..(a.ny - 1) |-> RAdd(lin[j], Rat(a.dy, 2))]

\* mutant: the sign of tauMax is lost
WindStressPlusTauMax(a) ==
    LET y == YC(a)
    IN  [r \in 0..(a.ny - 1) |->
           LET phi == RDiv(RDiv(RSub(y[r], R(a.yo)), R(a.ny - 2)), R(a.dy))
               t   == VScale(a.tauMax, CosTurn(phi))
           IN  [c \in 0..(a.nx - 1) |-> t]]

\* tau = -tauMax * cos(2*pi*((Y-yo)/(ny-2)/dy)), Y the meshgrid of y over x
WindStress(a) ==
    LET y == YC(a)
    IN  [r \in 0..(a.ny - 1) |->
           LET phi == RDiv(RDiv(RSub(y[r], R(a.yo)), R(a.ny - 2)), R(a.dy))
               t   == VScale(RNeg(a.tauMax), CosTurn(phi))
           IN  [c \in 0..(a.nx - 1) |-> t]]

\* the Tmax and Tmin the restoring-temperature formula reads: gendata
\* reassigns both names just before the formula
TmaxUsed(a) == R(30)
TminUsed(a) == R(0)

\* Trest = (Tmax-Tmin)/(ny-2)/dy * (ynorth-Y) + Tmin
RestoringTemp(a) ==
    LET y    == YC(a)
        Tmax == TmaxUsed(a)
        Tmin == TminUsed(a)
        k    == RDiv(RDiv(RSub(Tmax, Tmin), R(a.ny - 2)), R(a.dy))
    IN  [r \in 0..(a.ny - 1) |->
           LET t == Val(RAdd(RMul(k, RSub(R(ynorth(a)), y[r])), Tmin))
           IN  [c \in 0..(a.nx - 1) |-> t]]

\* the names of the three files, in the order gendata writes them
GenFiles == << "bathy.bin", "windx_cosy.bin", "SST_relax.bin" >>

\* the content gendata writes to its i-th file
GenContent(i, a) ==
    CASE i = 1 -> ToFile(Bathymetry(a), a.ny, a.nx)
      [] i = 2 -> ToFile(WindStress(a), a.ny, a.nx)
      [] i = 3 -> ToFile(RestoringTemp(a), a.ny, a.nx)

\* the call of the module's __main__ block
MainArgs ==
    [Ho |-> 1800, nx |-> 62, ny |-> 62, xo |-> 0, yo |-> 15, dx |-> 1, dy |-> 1,
     tauMax |-> Rat(1, 10), Tmin |-> R(0), Tmax |-> R(30)]

\* A file of the gendata output directory is recorded by what wrote it: the
\* i-th tofile call of gendata with arguments a (by = i), or something else
\* that left the items raw (by = 0).  FileItems is its content.
Written(i, a) == [by |-> i, args |-> a, raw |-> << >>]
RawFile(items) == [by |-> 0, args |-> MainArgs, raw |-> items]
FileItems(f) == IF f.by = 0 THEN f.raw ELSE GenContent(f.by, f.args)

\* mutant: the directory is left with the written file only
WriteFileAlone(dir, name, content) == [f \in {name} |-> content]

\* writing a file: it is created or truncated, then holds the new content
WriteFile(dir, name, content) ==
    [f \in DOMAIN dir \cup {name} |-> IF f = name THEN content ELSE dir[f]]

----------------------------------------------------------------------------
(* Text.  A Python str is a string; s[i] is Ch(s, i).                       *)

Ch(s, i) == SubSeq(s, i, i)

\* str.startswith / str.endswith
StartsWith(s, pre) == Len(pre) <= Len(s) /\ SubSeq(s, 1, Len(pre)) = pre
EndsWith(s, suf) ==
    Len(suf) <= Len(s) /\ SubSeq(s, Len(s) - Len(suf) + 1, Len(s)) = suf

\* the whitespace str.strip(), int() and float() skip
Whitespace == {" ", "\t", "\n", "\r", "\f"}

RECURSIVE LStrip(_)
LStrip(s) ==
    IF s # "" /\ Ch(s, 1) \in Whitespace THEN LStrip(Tail(s)) ELSE s
RECURSIVE RStrip(_)
RStrip(s) ==
    IF s # "" /\ Ch(s, Len(s)) \in Whitespace
    THEN RStrip(SubSeq(s, 1, Len(s) - 1)) ELSE s
\* str.strip()
Strip(s) == RStrip(LStrip(s))

Digits == << "0", "1", "2", "3", "4", "5", "6", "7", "8", "9" >>
IsDigit(c) == \E i \in 1..Len(Digits) : Digits[i] = c
DigitVal(c) == (CHOOSE i \in 1..Len(Digits) : Digits[i] = c) - 1
RECURSIVE AllDigits(_)
AllDigits(s) == s = "" \/ (IsDigit(Ch(s, 1)) /\ AllDigits(Tail(s)))
RECURSIVE DigitsVal(_, _)
DigitsVal(s, acc) ==
    IF s = "" THEN acc ELSE DigitsVal(Tail(s), 10 * acc + DigitVal(Ch(s, 1)))

\* a conversion returns [ok |-> TRUE, val |-> v], or raises ValueError:
\* [ok |-> FALSE, ...]
Parsed(v)  == [ok |-> TRUE, val |-> v]
InvalidInt == [ok |-> FALSE, val |-> 0]
InvalidFloat == [ok |-> FALSE, val |-> RZero]

\* int(s) for a str: surrounding whitespace, an optional sign, decimal digits
\* (digit-group underscores are outside the modelled alphabet)
ParseInt(s) ==
    LET t    == Strip(s)
        sgn  == t # "" /\ Ch(t, 1) \in {"+", "-"}
        body == IF sgn THEN Tail(t) ELSE t
    IN  IF body = "" \/ ~AllDigits(body) THEN InvalidInt
        ELSE IF sgn /\ Ch(t, 1) = "-" THEN Parsed(-DigitsVal(body, 0))
        ELSE Parsed(DigitsVal(body, 0))

\* the index of the first "." of s, or 0
RECURSIVE DotAt(_, _)
DotAt(s, i) ==
    IF i > Len(s) THEN 0 ELSE IF Ch(s, i) = "." THEN i ELSE DotAt(s, i + 1)

RECURSIVE Pow10(_)
Pow10(k) == IF k = 0 THEN 1 ELSE 10 * Pow10(k - 1)

\* float(s) for a str: surrounding whitespace, an optional sign, digits with an
\* optional fraction (exponents, inf and nan are outside the modelled
\* alphabet); the value is the exact decimal, as a rational
ParseFloat(s) ==
    LET t    == Strip(s)
        sgn  == t # "" /\ Ch(t, 1) \in {"+", "-"}
        body == IF sgn THEN Tail(t) ELSE t
        dot  == DotAt(body, 1)
        ip   == IF dot = 0 THEN body ELSE SubSeq(body, 1, dot - 1)
        fp   == IF dot = 0 THEN "" ELSE SubSeq(body, dot + 1, Len(body))
        mag  == Rat(DigitsVal(ip \o fp, 0), Pow10(Len(fp)))
    IN  IF (ip \o fp) = "" \/ ~AllDigits(ip) \/ ~AllDigits(fp) THEN InvalidFloat
        ELSE IF sgn /\ Ch(t, 1) = "-" THEN Parsed(RNeg(mag)) ELSE Parsed(mag)

\* '%s' % n for an int n
RECURSIVE NatToStr(_)
NatToStr(n) ==
    IF n < 10 THEN Digits[n + 1] ELSE NatToStr(n \div 10) \o Digits[(n % 10) + 1]
IntToStr(n) == IF n < 0 THEN "-" \o NatToStr(-n) ELSE NatToStr(n)

\* reading a text file opened with open(path, 'r'): universal newlines, so
\* '\r\n' and a lone '\r' are returned as '\n'.  ReadChar is what the byte at
\* i contributes: a '\r' reads as '\n', and the '\n' of a '\r\n' as nothing
ReadChar(bytes, i) ==
    IF Ch(bytes, i) = "\r" THEN "\n"
    ELSE IF Ch(bytes, i) = "\n" /\ i > 1 /\ Ch(bytes, i - 1) = "\r" THEN ""
    ELSE Ch(bytes, i)

\* the text read from the bytes lo..hi (halved, to keep the evaluation shallow)
RECURSIVE ReadRange(_, _, _)
ReadRange(bytes, lo, hi) ==
    IF lo > hi THEN ""
    ELSE IF lo = hi THEN ReadChar(bytes, lo)
    ELSE LET mid == (lo + hi) \div 2
         IN  ReadRange(bytes, lo, mid) \o ReadRange(bytes, mid + 1, hi)

ReadText(bytes) == ReadRange(bytes, 1, Len(bytes))

\* the index of the first "\n" of s at or after i, or 0
NewlineAt(s, i) ==
    LET hits == { j \in i..Len(s) : Ch(s, j) = "\n" }
    IN  IF hits = {} THEN 0 ELSE CHOOSE j \in hits : \A k \in hits : j <= k

\* 'for line in file': the lines of a text, each with its '\n' (the last line
\* may have none)
RECURSIVE Lines(_)
Lines(text) ==
    IF text = "" THEN << >>
    ELSE LET n == NewlineAt(text, 1)
         IN  IF n = 0 THEN << text >>
             ELSE << SubSeq(text, 1, n) >> \o Lines(SubSeq(text, n + 1, Len(text)))

----------------------------------------------------------------------------
(* execute: the request inputs and the config patch                         *)

\* data.get(key, default): data is a function from the keys present to strings
Get(data, key, default) == IF key \in DOMAIN data THEN data[key] ELSE default

\* mutant: another default for viscAh
DefaultOfOtherViscosity(key) ==
    CASE key = "endTime" -> "12000"
      [] key = "deltaT"  -> "1200"
      [] key = "viscAh"  -> "500"
      [] key = "tauMax"  -> "0.1"
      [] key = "Tmin"    -> "0.0"
      [] key = "Tmax"    -> "30.0"

\* the defaults of the six request fields
DefaultOf(key) ==
    CASE key = "endTime" -> "12000"
      [] key = "deltaT"  -> "1200"
      [] key = "viscAh"  -> "5000"
      [] key = "tauMax"  -> "0.1"
      [] key = "Tmin"    -> "0.0"
      [] key = "Tmax"    -> "30.0"

IntKeys   == {"endTime", "deltaT", "viscAh"}
FloatKeys == {"tauMax", "Tmin", "Tmax"}

\* endTime = int(data.get('endTime', '12000')), ... Tmax = float(data.get(...))
ParseField(data, key) ==
    IF key \in IntKeys THEN ParseInt(Get(data, key, DefaultOf(key)))
                       ELSE ParseFloat(Get(data, key, DefaultOf(key)))

\* mutant: only the int() conversions are made before the patch
InputsOkIntsOnly(data) == \A key \in IntKeys : ParseField(data, key).ok

\* whether the six conversions all succeed
InputsOk(data) == \A key \in IntKeys \cup FloatKeys : ParseField(data, key).ok

\* the six locals of execute after the conversions
Inputs(data) == [key \in IntKeys \cup FloatKeys |-> ParseField(data, key).val]

\* the locals before the conversions have run (and after a failed one)
NoInputs == [key \in IntKeys \cup FloatKeys |-> IF key \in IntKeys THEN 0 ELSE RZero]

\* mutant: the line is tested without being stripped
PatchLineUnstripped(line, v) ==
    IF StartsWith(line, "endTime")
    THEN " endTime=" \o IntToStr(v["endTime"]) \o ".,\n"
    ELSE IF StartsWith(line, "deltaT")
    THEN " deltaT=" \o IntToStr(v["deltaT"]) \o ".,\n"
    ELSE IF StartsWith(line, "viscAh")
    THEN " viscAh=" \o IntToStr(v["viscAh"]) \o ".,\n"
    ELSE line

\* one pass of the loop body over the lines of the template: the if/elif chain
PatchLine(line, v) ==
    IF StartsWith(Strip(line), "endTime")
    THEN " endTime=" \o IntToStr(v["endTime"]) \o ".,\n"
    ELSE IF StartsWith(Strip(line), "deltaT")
    THEN " deltaT=" \o IntToStr(v["deltaT"]) \o ".,\n"
    ELSE IF StartsWith(Strip(line), "viscAh")
    THEN " viscAh=" \o IntToStr(v["viscAh"]) \o ".,\n"
    ELSE line

\* everything newfile.write received, in order
RECURSIVE PatchLines(_, _)
PatchLines(lines, v) ==
    IF lines = << >> THEN ""
    ELSE PatchLine(Head(lines), v) \o PatchLines(Tail(lines), v)

\* the text written for a template with the given bytes
PatchText(bytes, v) == PatchLines(Lines(ReadText(bytes)), v)

\* the files of the run directory
DataOld == "data_backup_20240917"
DataToBeUsed == "data"
DataNew == "data_new"

\* the arguments of the call gendata(LOGGER, out_path, tauMax, Tmin, Tmax): the
\* other parameters take the defaults of gendata's signature
DefaultHo == 1800
DefaultNx == 62
DefaultNy == 62
DefaultXo == 0
DefaultYo == 15
DefaultDx == 1
DefaultDy == 1
GendataArgs(v) ==
    [Ho |-> DefaultHo, nx |-> DefaultNx, ny |-> DefaultNy, xo |-> DefaultXo,
     yo |-> DefaultYo, dx |-> DefaultDx, dy |-> DefaultDy,
     tauMax |-> v["tauMax"], Tmin |-> v["Tmin"], Tmax |-> v["Tmax"]]

----------------------------------------------------------------------------
(* execute: the subprocess result, the download files and the merge         *)

\* raise ProcessorExecuteError(user_msg="FORTRAN script failed with exit code %s" % exit_code)
FortranFailed(exit_code) ==
    [kind |-> "error", type |-> "ProcessorExecuteError",
     msg |-> "FORTRAN script failed with exit code " \o IntToStr(exit_code),
     hrefs |-> << >>]

\* an int() or float() conversion of a request field raised
ConversionFailed ==
    [kind |-> "error", type |-> "ValueError", msg |-> "", hrefs |-> << >>]

NoResult == [kind |-> "none", type |-> "", msg |-> "", hrefs |-> << >>]

\* mutant: only positive exit codes count as failures
ExitOkUnlessPositive(exit_code) == exit_code <= 0

\* whether execute goes on after call_fortran_script: 'if not exit_code == 0: raise'
ExitOk(exit_code) == exit_code = 0

\* PROCESS_METADATA['id'] and the job id the constructor sets
MetaId == "mitgcm-baroclinic-gyre"
JobId == "dummy_job_id"

\* 'outputs-<what>-%s-%s<ext>' % (self.metadata['id'], self.job_id)
DownloadName(what, ext) == "outputs-" \o what \o "-" \o MetaId \o "-" \o JobId \o ext

\* self.config['download_url'], read from the JSON config file
DownloadUrl == "https://example.org/download/"

\* str.rstrip('/')
RECURSIVE RStripSlash(_)
RStripSlash(s) ==
    IF s # "" /\ Ch(s, Len(s)) = "/" THEN RStripSlash(SubSeq(s, 1, Len(s) - 1)) ELSE s

\* self.config['download_url'].rstrip('/') + os.sep + name
DownloadLink(name) == RStripSlash(DownloadUrl) \o "/" \o name

\* the response object execute returns
Response ==
    [kind |-> "response", type |-> "application/json",
     msg |-> "Job finished, here are the links to your results.",
     hrefs |-> << DownloadLink(DownloadName("grid", ".nc")),
                  DownloadLink(DownloadName("state", ".nc")),
                  DownloadLink(DownloadName("stdout", ".txt")) >>]

\* mutant: grid.nc is not excluded
ClassifyKeepsGridNc(filename) ==
    IF ~EndsWith(filename, ".nc") THEN "ignored"
    ELSE IF filename = "state.nc" THEN "ignored"
    ELSE IF StartsWith(filename, "grid") THEN "grid"
    ELSE IF StartsWith(filename, "state") THEN "state"
    ELSE "ignored"

\* the if/elif chain of the loop over os.listdir(result_path): which list, if
\* any, a file name is appended to
Classify(filename) ==
    IF ~EndsWith(filename, ".nc") THEN "ignored"
    ELSE IF filename = "state.nc" THEN "ignored"
    ELSE IF filename = "grid.nc" THEN "ignored"
    ELSE IF StartsWith(filename, "grid") THEN "grid"
    ELSE IF StartsWith(filename, "state") THEN "state"
    ELSE "ignored"

\* the list built from a directory listing (a sequence of names) for one kind
RECURSIVE Collect(_, _)
Collect(listing, kind) ==
    IF listing = << >> THEN << >>
    ELSE (IF Classify(Head(listing)) = kind THEN << Head(listing) >> ELSE << >>)
         \o Collect(Tail(listing), kind)

\* os.listdir returns the names of a directory in an arbitrary order
Listings(dir) ==
    { l \in [1..Cardinality(dir) -> dir] : \A i, j \in DOMAIN l : i # j => l[i] # l[j] }

\* a file of the download directory: text, or the NetCDF parts glue merged
TextFile(text) == [text |-> text, parts |-> {}]

\* gluemncbig_adapted.glue(output_path, input_files, netcdf_version): writes
\* the merge of the input files to output_path
Glue(dir, output_name, input_files) ==
    WriteFile(dir, output_name,
              [text |-> "", parts |-> { input_files[i] : i \in DOMAIN input_files }])

NetcdfVersion == 1

----------------------------------------------------------------------------
(* State *)

VARIABLES
    runDir,       \* the run directory: file name -> bytes (config template, data_new, data)
    inputDir,     \* the gendata output directory: file name -> file (see Written)
    resultDir,    \* the names in run/mnc_test_0001
    downloadDir,  \* the download directory: file name -> file
    procs,        \* per request handler: the position in execute and its locals
    started,      \* the number of requests started so far
    gcall         \* a direct caller of gendata: position, arguments, history

vars == << runDir, inputDir, resultDir, downloadDir, procs, started, gcall >>

\* the handlers that may run execute at the same time (sync and async jobs)
Procs == {1, 2}

----------------------------------------------------------------------------
(* Bounds and input pools *)

MaxRequests == 2      \* requests started in one behaviour
MaxCalls == 2         \* direct calls of gendata in one behaviour
MaxNx == 4            \* grid sizes of the direct calls: 3..MaxNx, 3..MaxNy
MaxNy == 5

EmptyDir == [f \in {} |-> << >>]

\* config templates: the tutorial's layout, and one with a tab, CRLF line ends,
\* longer keys, a comment and no final newline
Templates ==
    { " &PARM01\n viscAh=5000.,\n &END\n &PARM03\n endTime=12000.,\n deltaT=1200.,\n &END\n",
      "# endTime is set below\n\tendTime = 1\r\n &PARM03\r\n deltaTmom=5,\nviscAhGrid=0",
      " endTime=12000.,\n" }

\* request inputs
ReqNone == [k \in {} |-> ""]
ReqCurl == [endTime |-> "24000", deltaT |-> "2400", viscAh |-> "5000"]
ReqDefaults ==
    [endTime |-> "12000", deltaT |-> "1200", viscAh |-> "5000",
     tauMax |-> "0.1", Tmin |-> "0.0", Tmax |-> "30.0"]
ReqForcing == [tauMax |-> "0.2", Tmin |-> "5", Tmax |-> "25.0", viscAh |-> " -1 "]
ReqBadInt == [endTime |-> "1.5", tauMax |-> "0.2"]
ReqBadFloat == [deltaT |-> "600", Tmax |-> "warm"]
Requests == {ReqNone, ReqCurl, ReqDefaults, ReqForcing, ReqBadInt, ReqBadFloat}
ConcRequests == {ReqCurl, ReqForcing}
ConcTemplates == {" endTime=12000.,\n"}
ConcExitCodes == {0, 1}
ConcRunOutputs == {{"grid.t001.nc", "state.0000000000.t001.nc"}}

\* what a run of the simulation binary may do: its exit code (negative: killed
\* by a signal), and the files it leaves in the result directory
ExitCodes == {0, 1, -11}
RunOutputs ==
    { {"grid.t001.nc", "state.0000000000.t001.nc"},
      {"grid.t001.nc"},
      {} }
StdoutOf(exit_code) == IF exit_code = 0 THEN "STOP NORMAL END\n" ELSE "STOP ABNORMAL END\n"

\* names found in the result directory before a run
OtherNames == {"grid.nc", "state.nc", "grid.txt", "phiHyd.t001.nc", "stategrid.t001.nc", "nc"}
InitResultDirs == {{}} \cup { {n} : n \in OtherNames }

\* arguments of the direct calls of gendata
GenSmallArgs ==
    { [Ho |-> ho, nx |-> nx, ny |-> ny, xo |-> 0, yo |-> yo, dx |-> 1, dy |-> dy,
       tauMax |-> tau, Tmin |-> tmin, Tmax |-> tmax] :
         ho \in {1800, 1}, nx \in 3..MaxNx, ny \in 3..MaxNy, yo \in {15, 0},
         dy \in {1, 2}, tau \in {Rat(1, 10), Rat(1, 2)},
         tmin \in {R(0), R(5)}, tmax \in {R(30), R(25)} }
GenArgs == GenSmallArgs \cup {MainArgs}

\* the output directory before a direct call: empty, holding another file, or
\* holding another file and stale outputs
OtherFile == RawFile(<< Val(R(7)), Val(R(8)) >>)
GenInitDirs ==
    { EmptyDir,
      [f \in {"data"} |-> OtherFile],
      [f \in {"data", "bathy.bin", "windx_cosy.bin", "SST_relax.bin"} |->
          IF f = "data" THEN OtherFile
          ELSE IF f = "bathy.bin" THEN RawFile(<< >>)
          ELSE RawFile([k \in 1..30 |-> Val(R(k))])] }

----------------------------------------------------------------------------
(* Initial states *)

IdleProc ==
    [pc |-> "idle", data |-> ReqNone, v |-> NoInputs, buf |-> "",
     child |-> "none", launches |-> 0, saw |-> "", exit_code |-> 0, stdout |-> "",
     grid_files |-> << >>, state_files |-> << >>, glued |-> << >>,
     result |-> NoResult, events |-> << >>,
     at0 |-> [runDir |-> EmptyDir, inputDir |-> EmptyDir, downloadDir |-> EmptyDir]]

IdleCall == [next |-> 0, calls |-> 0, args |-> MainArgs, before |-> EmptyDir]

\* the input directory as the tutorial's own gendata run leaves it
TutorialInputDir ==
    [f \in {GenFiles[i] : i \in 1..3} |->
        Written(CHOOSE i \in 1..3 : GenFiles[i] = f, MainArgs)]

InitOrch(templates) ==
    /\ \E t \in templates : runDir = [f \in {DataOld} |-> t]
    /\ inputDir = TutorialInputDir
    /\ resultDir \in InitResultDirs
    /\ downloadDir = EmptyDir
    /\ procs = [p \in Procs |-> IdleProc]
    /\ started = 0
    /\ gcall = IdleCall

Init == InitOrch(Templates)

InitGen ==
    /\ runDir = EmptyDir
    /\ inputDir \in GenInitDirs
    /\ resultDir = {}
    /\ downloadDir = EmptyDir
    /\ procs = [p \in Procs |-> IdleProc]
    /\ started = 0
    /\ \E a \in GenArgs : gcall = [IdleCall EXCEPT !.args = a]

----------------------------------------------------------------------------
(* Direct calls of gendata *)

\* gendata is entered
GenCall ==
    /\ gcall.next = 0
    /\ gcall.calls < MaxCalls
    /\ gcall' = [gcall EXCEPT !.next = 1, !.calls = @ + 1, !.before = inputDir]
    /\ UNCHANGED << runDir, inputDir, resultDir, downloadDir, procs, started >>

\* one of the three tofile calls, in the order of the source; after the third
\* gendata returns
GenWrite ==
    /\ gcall.next \in 1..3
    /\ inputDir' = WriteFile(inputDir, GenFiles[gcall.next],
                             Written(gcall.next, gcall.args))
    /\ gcall' = [gcall EXCEPT !.next = IF @ = 3 THEN 0 ELSE @ + 1]
    /\ UNCHANGED << runDir, resultDir, downloadDir, procs, started >>

NextGen == GenCall \/ GenWrite

SpecGen == InitGen /\ [][NextGen]_vars

----------------------------------------------------------------------------
(* execute, step by step.  pc is the step a handler is about to take.       *)

\* mutant: the forcing files are generated before the config is patched
AfterStepGendataFirst(pc) ==
    CASE pc = "parse"     -> "bathy"
      [] pc = "bathy"     -> "windx"
      [] pc = "windx"     -> "sst"
      [] pc = "sst"       -> "open"
      [] pc = "open"      -> "patch"
      [] pc = "patch"     -> "copy"
      [] pc = "copy"      -> "popen"
      [] pc = "popen"     -> "wait"
      [] pc = "wait"      -> "check"
      [] pc = "check"     -> "stdout"
      [] pc = "stdout"    -> "list"
      [] pc = "list"      -> "glue_grid"
      [] pc = "glue_grid" -> "glue_state"
      [] pc = "glue_state" -> "return"
      [] pc = "return"    -> "done"

\* the order of the steps of execute (the raise after a failed conversion or
\* a nonzero exit code leaves it)
AfterStep(pc) ==
    CASE pc = "parse"     -> "open"        \* the six conversions
      [] pc = "open"      -> "patch"       \* the two open() of the with statements
      [] pc = "patch"     -> "copy"        \* the loop over the lines, and the close
      [] pc = "copy"      -> "bathy"       \* shutil.copy
      [] pc = "bathy"     -> "windx"       \* gendata: the three tofile calls
      [] pc = "windx"     -> "sst"
      [] pc = "sst"       -> "popen"
      [] pc = "popen"     -> "wait"        \* call_fortran_script: Popen
      [] pc = "wait"      -> "check"       \* call_fortran_script: communicate
      [] pc = "check"     -> "stdout"      \* the exit code test
      [] pc = "stdout"    -> "list"        \* the stdout download file
      [] pc = "list"      -> "glue_grid"   \* the loop over os.listdir
      [] pc = "glue_grid" -> "glue_state"  \* the two glue calls
      [] pc = "glue_state" -> "return"
      [] pc = "return"    -> "done"

\* the pipeline stage a step begins or ends, for the history of a request
StageEvents(pc) ==
    CASE pc = "open"       -> << "patch:begin" >>
      [] pc = "copy"       -> << "patch:end" >>
      [] pc = "bathy"      -> << "gendata:begin" >>
      [] pc = "sst"        -> << "gendata:end" >>
      [] pc = "popen"      -> << "run:begin" >>
      [] pc = "wait"       -> << "run:end" >>
      [] pc = "glue_grid"  -> << "merge:begin" >>
      [] pc = "glue_state" -> << "merge:end" >>
      [] OTHER             -> << >>

\* the handler's record after the step at its pc, with the given changes
Advance(r) ==
    [r EXCEPT !.pc = AfterStep(r.pc), !.events = @ \o StageEvents(r.pc)]

\* mutant: execute is entered only while no other handler is inside it
CanStartWhenAlone(p) ==
    \A q \in Procs \ {p} : procs[q].pc \in {"idle", "done", "failed"}

\* whether a handler may enter execute now: execute takes no lock
CanStart(p) == TRUE

\* the framework calls execute(data)
Start(p, pool) ==
    /\ procs[p].pc \in {"idle", "done", "failed"}
    /\ started < MaxRequests
    /\ CanStart(p)
    /\ \E d \in pool :
         procs' = [procs EXCEPT ![p] =
                     [IdleProc EXCEPT !.pc = "parse", !.data = d,
                        !.at0 = [runDir |-> runDir, inputDir |-> inputDir,
                                 downloadDir |-> downloadDir]]]
    /\ started' = started + 1
    /\ UNCHANGED << runDir, inputDir, resultDir, downloadDir, gcall >>

\* the six int()/float() conversions
Parse(p) ==
    /\ procs[p].pc = "parse"
    /\ LET r == procs[p]
       IN  procs' = [procs EXCEPT ![p] =
                       IF InputsOk(r.data)
                       THEN Advance([r EXCEPT !.v = Inputs(r.data)])
                       ELSE [r EXCEPT !.pc = "failed", !.result = ConversionFailed]]
    /\ UNCHANGED << runDir, inputDir, resultDir, downloadDir, started, gcall >>

\* mutant: data_new is opened without being truncated
OpenFilesNoTruncate(p) ==
    /\ procs[p].pc = "open"
    /\ runDir' = IF DataNew \in DOMAIN runDir THEN runDir
                 ELSE WriteFile(runDir, DataNew, "")
    /\ procs' = [procs EXCEPT ![p] = Advance([@ EXCEPT !.buf = ""])]
    /\ UNCHANGED << inputDir, resultDir, downloadDir, started, gcall >>

\* open(input_file_data_old, 'r'); open(input_file_data_new, 'w'): data_new is
\* created or truncated
OpenFiles(p) ==
    /\ procs[p].pc = "open"
    /\ runDir' = WriteFile(runDir, DataNew, "")
    /\ procs' = [procs EXCEPT ![p] = Advance([@ EXCEPT !.buf = ""])]
    /\ UNCHANGED << inputDir, resultDir, downloadDir, started, gcall >>

\* what a file holds after a buffer is flushed to it at offset 0
FlushAt0(existing, written) ==
    written \o SubSeq(existing, Len(written) + 1, Len(existing))

\* the loop over the lines of the template, and the close of both files: the
\* buffered text reaches data_new when newfile is closed
PatchLoop(p) ==
    /\ procs[p].pc = "patch"
    /\ LET text == PatchText(runDir[DataOld], procs[p].v)
       IN  /\ runDir' = WriteFile(runDir, DataNew, FlushAt0(runDir[DataNew], text))
           /\ procs' = [procs EXCEPT ![p] = Advance([@ EXCEPT !.buf = text])]
    /\ UNCHANGED << inputDir, resultDir, downloadDir, started, gcall >>

\* shutil.copy(input_file_data_new, input_file_data_to_be_used)
CopyData(p) ==
    /\ procs[p].pc = "copy"
    /\ runDir' = WriteFile(runDir, DataToBeUsed, runDir[DataNew])
    /\ procs' = [procs EXCEPT ![p] = Advance(@)]
    /\ UNCHANGED << inputDir, resultDir, downloadDir, started, gcall >>

\* the index in GenFiles of the file a gendata step writes
GenIndex(pc) == CASE pc = "bathy" -> 1 [] pc = "windx" -> 2 [] pc = "sst" -> 3

\* gendata_adapted.gendata(...): one tofile call per step
Gendata(p) ==
    /\ procs[p].pc \in {"bathy", "windx", "sst"}
    /\ LET i == GenIndex(procs[p].pc)
       IN  inputDir' = WriteFile(inputDir, GenFiles[i],
                                 Written(i, GendataArgs(procs[p].v)))
    /\ procs' = [procs EXCEPT ![p] = Advance(@)]
    /\ UNCHANGED << runDir, resultDir, downloadDir, started, gcall >>

\* subprocess.Popen(cmd, cwd=mycwd, ...)
Popen(p) ==
    /\ procs[p].pc = "popen"
    /\ procs' = [procs EXCEPT ![p] =
                   Advance([@ EXCEPT !.child = "running", !.launches = @ + 1])]
    /\ UNCHANGED << runDir, inputDir, resultDir, downloadDir, started, gcall >>

\* the simulation binary runs: it reads the config file of the run directory,
\* leaves files in the result directory and exits
SubRun(p, codes, outputs) ==
    /\ procs[p].child = "running"
    /\ \E code \in codes, outs \in outputs :
         /\ procs' = [procs EXCEPT ![p] =
                        [@ EXCEPT !.child = "exited", !.saw = runDir[DataToBeUsed],
                                  !.exit_code = code, !.stdout = StdoutOf(code)]]
         /\ resultDir' = resultDir \cup outs
    /\ UNCHANGED << runDir, inputDir, downloadDir, started, gcall >>

\* p.communicate() returns once the child has exited
Communicate(p) ==
    /\ procs[p].pc = "wait"
    /\ procs[p].child = "exited"
    /\ procs' = [procs EXCEPT ![p] = Advance(@)]
    /\ UNCHANGED << runDir, inputDir, resultDir, downloadDir, started, gcall >>

\* if not exit_code == 0: raise ProcessorExecuteError(...)
CheckExit(p) ==
    /\ procs[p].pc = "check"
    /\ LET r == procs[p]
       IN  procs' = [procs EXCEPT ![p] =
                       IF ExitOk(r.exit_code) THEN Advance(r)
                       ELSE [r EXCEPT !.pc = "failed",
                                      !.result = FortranFailed(r.exit_code)]]
    /\ UNCHANGED << runDir, inputDir, resultDir, downloadDir, started, gcall >>

\* with open(downloadfilepath_stdout, 'w') as outfile: outfile.write(stdout)
WriteStdout(p) ==
    /\ procs[p].pc = "stdout"
    /\ downloadDir' = WriteFile(downloadDir, DownloadName("stdout", ".txt"),
                                TextFile(procs[p].stdout))
    /\ procs' = [procs EXCEPT ![p] = Advance(@)]
    /\ UNCHANGED << runDir, inputDir, resultDir, started, gcall >>

\* the loop over os.listdir(result_path)
ListDir(p) ==
    /\ procs[p].pc = "list"
    /\ \E listing \in Listings(resultDir) :
         procs' = [procs EXCEPT ![p] =
                     Advance([@ EXCEPT !.grid_files = Collect(listing, "grid"),
                                       !.state_files = Collect(listing, "state")])]
    /\ UNCHANGED << runDir, inputDir, resultDir, downloadDir, started, gcall >>

\* gluemncbig_adapted.glue(downloadfilepath_grid, grid_files, netcdf_version),
\* then the same for the state files
GlueCall(p) ==
    /\ procs[p].pc \in {"glue_grid", "glue_state"}
    /\ LET grid  == procs[p].pc = "glue_grid"
           name  == DownloadName(IF grid THEN "grid" ELSE "state", ".nc")
           files == IF grid THEN procs[p].grid_files ELSE procs[p].state_files
       IN  /\ downloadDir' = Glue(downloadDir, name, files)
           /\ procs' = [procs EXCEPT ![p] =
                          Advance([@ EXCEPT !.glued =
                                     Append(@, << name, files, NetcdfVersion >>)])]
    /\ UNCHANGED << runDir, inputDir, resultDir, started, gcall >>

\* return 'application/json', response_object
Return(p) ==
    /\ procs[p].pc = "return"
    /\ procs' = [procs EXCEPT ![p] = Advance([@ EXCEPT !.result = Response])]
    /\ UNCHANGED << runDir, inputDir, resultDir, downloadDir, started, gcall >>

Step(p) ==
    \/ Parse(p) \/ OpenFiles(p) \/ PatchLoop(p) \/ CopyData(p) \/ Gendata(p)
    \/ Popen(p) \/ Communicate(p) \/ CheckExit(p)
    \/ WriteStdout(p) \/ ListDir(p) \/ GlueCall(p) \/ Return(p)

\* requests served one at a time by one handler
Next == Start(1, Requests) \/ Step(1) \/ SubRun(1, ExitCodes, RunOutputs)

Spec == Init /\ [][Next]_vars

\* two handlers serving requests at the same time
InitConc == InitOrch(ConcTemplates) /\ resultDir = {}
NextConc ==
    \E p \in Procs : Start(p, ConcRequests) \/ Step(p) \/ SubRun(p, ConcExitCodes, ConcRunOutputs)

SpecConc == InitConc /\ [][NextConc]_vars

----------------------------------------------------------------------------
(* Claims about gendata, checked under SpecGen *)

\* the i-th file of the current call has been written
GenWritten(i) == gcall.calls >= 1 /\ (gcall.next = 0 \/ gcall.next > i)
\* the current call has returned
GenReturned == gcall.calls >= 1 /\ gcall.next = 0

\* the item of a file at row r, column c of an (ny, nx) grid (row-major)
ItemAt(f, a, r, c) == FileItems(f)[r * a.nx + c + 1]

\* the restoring temperature of the spec's formula at row r, for given bounds
TrestAt(a, r, tmin, tmax) ==
    LET y == RAdd(R(a.yo - a.dy + r * a.dy), Rat(a.dy, 2))
    IN  RAdd(RMul(RDiv(RSub(tmax, tmin), R((a.ny - 2) * a.dy)),
                  RSub(R(ynorth(a)), y)),
             tmin)

\* C3 (as claimed): once SST_relax.bin is written, every cell of row r equals
\* (Tmax-Tmin)/((ny-2)*dy) * (ynorth - y) + Tmin for the caller's Tmin and Tmax
C3_SSTFromCallerBounds ==
    GenWritten(3) =>
        LET a == gcall.args
        IN  \A r \in 0..(a.ny - 1), c \in 0..(a.nx - 1) :
               ItemAt(inputDir["SST_relax.bin"], a, r, c)
                 = Val(F32(TrestAt(a, r, a.Tmin, a.Tmax)))

\* C4: once bathy.bin is written, the cells of the first and last row and of
\* the first and last column are 0 and every other cell is -Ho
C4_BathyBorderAndInterior ==
    GenWritten(1) =>
        LET a == gcall.args
        IN  /\ Len(FileItems(inputDir["bathy.bin"])) = a.ny * a.nx
            /\ \A r \in 0..(a.ny - 1), c \in 0..(a.nx - 1) :
                  ItemAt(inputDir["bathy.bin"], a, r, c)
                    = IF r \in {0, a.ny - 1} \/ c \in {0, a.nx - 1}
                      THEN Val(RZero) ELSE Val(R(-a.Ho))

\* C4 witness: bathy.bin written for a grid with more than one interior row
\* and column
C4_Witness ==
    /\ GenWritten(1) /\ gcall.next = 2
    /\ gcall.args.nx = 4 /\ gcall.args.ny = 5 /\ gcall.args.Ho = 1800
    /\ ItemAt(inputDir["bathy.bin"], gcall.args, 2, 1) = Val(R(-1800))

\* C5: when a call has returned, the directory holds what it held before plus
\* the three files; each of the three holds ny*nx items of 4 bytes, row r of
\* the grid at items r*nx+1 .. r*nx+nx (the wind and temperature files are
\* constant along a row, the bathymetry is 0 in the first and last column);
\* every other file is as before; a
\* second call with the same arguments leaves the three files as they were;
\* nothing outside the directory has changed
C5_ThreeFilesOnly ==
    GenReturned =>
        LET a == gcall.args
            names == {GenFiles[i] : i \in 1..3}
        IN  /\ DOMAIN inputDir = DOMAIN gcall.before \cup names
            /\ \A f \in names :
                  /\ Len(FileItems(inputDir[f])) = a.ny * a.nx
                  /\ ByteLen(FileItems(inputDir[f])) = a.ny * a.nx * 4
            /\ \A f \in {"windx_cosy.bin", "SST_relax.bin"} :
                  \A r \in 0..(a.ny - 1), c \in 0..(a.nx - 1) :
                     ItemAt(inputDir[f], a, r, c) = ItemAt(inputDir[f], a, r, 0)
            /\ \A c \in {0, a.nx - 1} : \A r \in 0..(a.ny - 1) :
                  ItemAt(inputDir["bathy.bin"], a, r, c) = Val(RZero)
            /\ \A f \in DOMAIN gcall.before \ names : inputDir[f] = gcall.before[f]
            /\ gcall.calls = 2 =>
                  \A f \in names : FileItems(inputDir[f]) = FileItems(gcall.before[f])
            /\ runDir = EmptyDir /\ resultDir = {} /\ downloadDir = EmptyDir

\* C5 witness: a second call has returned in a directory that held another
\* file and stale outputs of another size
C5_Witness ==
    /\ GenReturned /\ gcall.calls = 2
    /\ "data" \in DOMAIN inputDir /\ inputDir["data"] = OtherFile
    /\ gcall.args.nx = 3 /\ gcall.args.ny = 4
    /\ Len(FileItems(inputDir["SST_relax.bin"])) = 12

\* C10 (as claimed), for the calls whose Tmin and Tmax are 0 and 30: once
\* SST_relax.bin is written its first row equals Tmax and its last row Tmin
C10_EdgeRowsAreBounds ==
    (GenWritten(3) /\ gcall.args.Tmin = R(0) /\ gcall.args.Tmax = R(30)) =>
        LET a == gcall.args
        IN  \A c \in 0..(a.nx - 1) :
               /\ ItemAt(inputDir["SST_relax.bin"], a, 0, c) = Val(F32(a.Tmax))
               /\ ItemAt(inputDir["SST_relax.bin"], a, a.ny - 1, c) = Val(F32(a.Tmin))

\* C10 (amended): once SST_relax.bin is written, its first row equals
\* 30 + 30/(2*(ny-2)) and its last row 0 - 30/(2*(ny-2)), rounded to binary32:
\* half a cell beyond the bounds 30 and 0 the formula uses; for the call of
\* __main__ (ny = 62) that is 30.25 and -0.25
C10_EdgeRowsHalfCellBeyond ==
    GenWritten(3) =>
        LET a == gcall.args
        IN  /\ \A c \in 0..(a.nx - 1) :
                 /\ ItemAt(inputDir["SST_relax.bin"], a, 0, c)
                      = Val(F32(RAdd(R(30), Rat(30, 2 * (a.ny - 2)))))
                 /\ ItemAt(inputDir["SST_relax.bin"], a, a.ny - 1, c)
                      = Val(F32(RSub(R(0), Rat(30, 2 * (a.ny - 2)))))
            /\ a = MainArgs =>
                 /\ ItemAt(inputDir["SST_relax.bin"], a, 0, 0) = Val(Rat(121, 4))
                 /\ ItemAt(inputDir["SST_relax.bin"], a, 61, 0) = Val(Rat(-1, 4))

\* C10 witness: the call of __main__ has written SST_relax.bin
C10_Witness ==
    /\ GenWritten(3) /\ gcall.args = MainArgs
    /\ ItemAt(inputDir["SST_relax.bin"], MainArgs, 61, 61) = Val(Rat(-1, 4))

----------------------------------------------------------------------------
(* Claims about execute serving one request at a time, checked under Spec *)

\* the steps of execute after the patched config has been written and closed
AfterPatch ==
    {"copy", "bathy", "windx", "sst", "popen", "wait", "check", "stdout", "list",
     "glue_grid", "glue_state", "return", "done"}

\* the line execute writes for a line of the template, as C1 states it
ClaimedLine(line, v) ==
    IF \E k \in IntKeys : StartsWith(Strip(line), k)
    THEN LET k == CHOOSE k \in IntKeys : StartsWith(Strip(line), k)
         IN  " " \o k \o "=" \o IntToStr(v[k]) \o ".,\n"
    ELSE line

\* C1 (as claimed): the patched config has one line per line of the template
\* (the template's bytes split after each '\n'); a line whose stripped text
\* starts with endTime, deltaT or viscAh is replaced by ' <key>=<value>.,\n',
\* every other line is copied byte for byte
C1_OtherLinesByteIdentical ==
    (procs[1].pc \in AfterPatch /\ procs[1].result.kind # "error") =>
        LET old == Lines(runDir[DataOld])
            new == Lines(runDir[DataNew])
        IN  /\ Len(new) = Len(old)
            /\ \A i \in 1..Len(old) : new[i] = ClaimedLine(old[i], procs[1].v)

\* C1 (amended): the same, for the lines of the template as a text-mode read
\* returns them: a '\r\n' or a lone '\r' ends a line and is written as '\n'
C1_OtherLinesCopiedAsRead ==
    (procs[1].pc \in AfterPatch /\ procs[1].result.kind # "error") =>
        LET old == Lines(ReadText(runDir[DataOld]))
            new == Lines(runDir[DataNew])
        IN  /\ Len(new) = Len(old)
            /\ \A i \in 1..Len(old) : new[i] = ClaimedLine(old[i], procs[1].v)
            /\ procs[1].pc # "copy" => runDir[DataToBeUsed] = runDir[DataNew]

\* C1 witness: the template with a tab, CRLF line ends and longer keys has been
\* patched with the values of the curl example
C1_Witness ==
    /\ procs[1].pc = "copy" /\ procs[1].data = ReqCurl
    /\ runDir[DataOld]
         = "# endTime is set below\n\tendTime = 1\r\n &PARM03\r\n deltaTmom=5,\nviscAhGrid=0"
    /\ runDir[DataNew]
         = "# endTime is set below\n endTime=24000.,\n &PARM03\n deltaT=2400.,\n viscAh=5000.,\n"

\* C2: once execute has seen a nonzero exit code it has failed with a
\* ProcessorExecuteError whose message ends with the exit code; the subprocess
\* was launched once, glue was not called, the download directory is as it was
\* when the request started and no response is returned
C2_NonzeroExitFails ==
    LET r == procs[1]
    IN  (r.child = "exited" /\ r.exit_code # 0 /\ r.pc \notin {"wait", "check"}) =>
           /\ r.pc = "failed"
           /\ r.result.kind = "error" /\ r.result.type = "ProcessorExecuteError"
           /\ r.result.msg
                = "FORTRAN script failed with exit code "
                    \o (IF r.exit_code < 0 THEN "-" ELSE "") \o NatToStr(Abs(r.exit_code))
           /\ r.launches = 1
           /\ r.glued = << >>
           /\ downloadDir = r.at0.downloadDir
           /\ r.result.hrefs = << >>

\* C2 witness: a request has failed after the run was killed by signal 11
C2_Witness ==
    /\ procs[1].pc = "failed" /\ procs[1].exit_code = -11
    /\ procs[1].result.msg = "FORTRAN script failed with exit code -11"

\* the request fields with the documented default written out for each field
\* that is absent
LiteralDefaults ==
    [endTime |-> "12000", deltaT |-> "1200", viscAh |-> "5000",
     tauMax |-> "0.1", Tmin |-> "0.0", Tmax |-> "30.0"]
WithDefaults(data) ==
    [k \in IntKeys \cup FloatKeys |->
        IF k \in DOMAIN data THEN data[k] ELSE LiteralDefaults[k]]

Names(files) == { files[i] : i \in DOMAIN files }

\* C7: after the listing loop grid_files holds, once each, the names of the
\* result directory that end in .nc, start with grid and are not grid.nc, and
\* state_files those that end in .nc, start with state and are not state.nc;
\* no name is in both; glue is called once with each list, and by then
\* exactly twice
C7_ClassificationAndTwoGlues ==
    LET r == procs[1]
        gridName  == "outputs-grid-mitgcm-baroclinic-gyre-dummy_job_id.nc"
        stateName == "outputs-state-mitgcm-baroclinic-gyre-dummy_job_id.nc"
    IN  r.pc \in {"glue_grid", "glue_state", "return", "done"} =>
           /\ Names(r.grid_files)
                = { f \in resultDir :
                      EndsWith(f, ".nc") /\ StartsWith(f, "grid") /\ f # "grid.nc" }
           /\ Names(r.state_files)
                = { f \in resultDir :
                      EndsWith(f, ".nc") /\ StartsWith(f, "state") /\ f # "state.nc" }
           /\ Len(r.grid_files) = Cardinality(Names(r.grid_files))
           /\ Len(r.state_files) = Cardinality(Names(r.state_files))
           /\ Names(r.grid_files) \cap Names(r.state_files) = {}
           /\ r.glued
                = CASE r.pc = "glue_grid"  -> << >>
                    [] r.pc = "glue_state" -> << << gridName, r.grid_files, 1 >> >>
                    [] OTHER -> << << gridName, r.grid_files, 1 >>,
                                   << stateName, r.state_files, 1 >> >>
           /\ r.pc \in {"return", "done"} =>
                 /\ downloadDir[gridName].parts = Names(r.grid_files)
                 /\ downloadDir[stateName].parts = Names(r.state_files)

\* C7 witness: a request is done whose result directory held grid.nc besides
\* the tiles of the run
C7_Witness ==
    /\ procs[1].pc = "done"
    /\ resultDir = {"grid.nc", "grid.t001.nc", "state.0000000000.t001.nc"}
    /\ procs[1].grid_files = << "grid.t001.nc" >>
    /\ procs[1].state_files = << "state.0000000000.t001.nc" >>

\* s is an initial part of t
IsPrefix(s, t) == Len(s) <= Len(t) /\ SubSeq(t, 1, Len(s)) = s

\* C8 (as claimed): the stages of a request begin and end in the order forcing
\* files, config patch, subprocess, merge
C8_GendataThenPatch ==
    IsPrefix(procs[1].events,
             << "gendata:begin", "gendata:end", "patch:begin", "patch:end",
                "run:begin", "run:end", "merge:begin", "merge:end" >>)

\* C8 (amended): the stages of a request begin and end in the order config
\* patch, forcing files, subprocess, merge, each stage ending before the next
\* begins; the subprocess is launched once and has exited when its stage ends;
\* a response is returned only after all four stages
C8_PatchThenGendata ==
    LET r == procs[1]
        order == << "patch:begin", "patch:end", "gendata:begin", "gendata:end",
                    "run:begin", "run:end", "merge:begin", "merge:end" >>
    IN  /\ IsPrefix(r.events, order)
        /\ r.launches <= 1
        /\ Len(r.events) >= 5 => r.launches = 1
        /\ Len(r.events) >= 6 => r.child = "exited"
        /\ Len(r.events) >= 7 => r.exit_code = 0
        /\ r.result.kind = "response" => (r.events = order /\ r.pc = "done")
        /\ r.pc = "done" => r.result.kind = "response"

\* C8 witness: a request has returned its response
C8_Witness ==
    /\ procs[1].pc = "done" /\ procs[1].result.kind = "response"
    /\ procs[1].events[1] = "patch:begin" /\ procs[1].events[3] = "gendata:begin"
    /\ procs[1].launches = 1

----------------------------------------------------------------------------
(* Claims about requests served at the same time, checked under SpecConc *)

\* C9: nothing serialises the requests: while one handler is inside execute,
\* another handler that is outside may enter it (as long as requests remain)
C9_NothingSerialises ==
    \A p \in Procs :
       (procs[p].pc \in {"idle", "done", "failed"} /\ started < MaxRequests)
          => ENABLED Start(p, ConcRequests)

\* C9 witness: the simulation of one request has read a config that holds the
\* values of the other request, not its own, while both were inside execute
C9_Witness ==
    \E p, q \in Procs :
       /\ p # q
       /\ procs[p].child = "exited" /\ procs[p].pc = "wait"
       /\ procs[q].pc \in AfterPatch \ {"copy", "done"}
       /\ procs[p].saw = PatchText(runDir[DataOld], procs[q].v)
       /\ procs[p].saw # PatchText(runDir[DataOld], procs[p].v)
       /\ procs[p].data = ReqCurl /\ procs[q].data = ReqForcing
       /\ procs[p].saw = " endTime=12000.,\n"

----------------------------------------------------------------------------
(* The wind stress, checked under SpecGen.  The rows are the cell centres   *)
(* y_r = yo - dy/2 + r*dy, so the mirror image ynorth - (y_r - yo) of row r  *)
(* about the meridional midpoint is row ny-1-r, and the midpoint itself is  *)
(* row (ny-1)/2 when ny is odd.                                             *)

\* the wind stress at row r, column c of the written file
TauAt(r, c) == ItemAt(inputDir["windx_cosy.bin"], gcall.args, r, c)

----------------------------------------------------------------------------
(* Requests with a field that is no number, checked under Spec *)

\* the text is an optional sign and digits, with surrounding blanks
LooksLikeInt(s) ==
    LET t == Strip(s)
        body == IF t # "" /\ Ch(t, 1) \in {"+", "-"} THEN Tail(t) ELSE t
    IN  body # "" /\ \A i \in 1..Len(body) : IsDigit(Ch(body, i))

\* the text is an optional sign and digits with at most one '.', with
\* surrounding blanks
LooksLikeFloat(s) ==
    LET t == Strip(s)
        body == IF t # "" /\ Ch(t, 1) \in {"+", "-"} THEN Tail(t) ELSE t
        dots == { i \in 1..Len(body) : Ch(body, i) = "." }
    IN  /\ Cardinality(dots) <= 1
        /\ Len(body) > Cardinality(dots)
        /\ \A i \in 1..Len(body) : i \in dots \/ IsDigit(Ch(body, i))

\* a field of the request cannot be converted to its numeric type
HasBadField(data) ==
    \/ \E k \in IntKeys \cap DOMAIN data : ~LooksLikeInt(data[k])
    \/ \E k \in FloatKeys \cap DOMAIN data : ~LooksLikeFloat(data[k])

\* C12: a request with a field that cannot be converted has, once the
\* conversions have run, failed with the ValueError of the conversion; the run
\* directory (config template, data_new, data), the forcing files and the
\* download directory are as they were when the request started, the
\* subprocess was not launched and glue was not called; and only such a
\* request fails that way
C12_BadFieldFailsBeforeSideEffects ==
    LET r == procs[1]
    IN  /\ (r.pc \notin {"idle", "parse"} /\ HasBadField(r.data)) =>
              /\ r.pc = "failed"
              /\ r.result.kind = "error" /\ r.result.type = "ValueError"
              /\ runDir = r.at0.runDir
              /\ inputDir = r.at0.inputDir
              /\ downloadDir = r.at0.downloadDir
              /\ r.launches = 0 /\ r.child = "none"
              /\ r.glued = << >>
              /\ r.events = << >>
        /\ r.result.type = "ValueError" => HasBadField(r.data)

\* C12 witness: after a request that ran to its end, a request whose Tmax is
\* 'warm' has failed, with the files of the earlier request still in place
C12_Witness ==
    /\ procs[1].pc = "failed" /\ procs[1].data = ReqBadFloat
    /\ procs[1].result.type = "ValueError"
    /\ started = 2
    /\ DataToBeUsed \in DOMAIN runDir
    /\ "outputs-stdout-mitgcm-baroclinic-gyre-dummy_job_id.txt" \in DOMAIN downloadDir

----------------------------------------------------------------------------
(* The config files over a sequence of requests, checked under Spec *)

\* the template patched with the values v, line by line as C1 states it
RECURSIVE ClaimedText(_, _)
ClaimedText(lines, v) ==
    IF lines = << >> THEN ""
    ELSE ClaimedLine(Head(lines), v) \o ClaimedText(Tail(lines), v)

\* the request of the handler has ended after its patch: it returned its
\* response, or failed at the subprocess step
EndedAfterPatch(r) ==
    \/ r.pc = "done"
    \/ r.pc = "failed" /\ r.result.type = "ProcessorExecuteError"

\* a step leaves the template config file as it is
TemplateKept == DataOld \in DOMAIN runDir' /\ runDir'[DataOld] = runDir[DataOld]

\* C13: no step changes the template config file, and when a request has ended
\* (with its response, or failed at the subprocess step) the active config
\* file 'data' is the template patched with the values of that request only
C13_ActiveConfigIsLatestPatch ==
    /\ [](EndedAfterPatch(procs[1]) =>
            /\ DataToBeUsed \in DOMAIN runDir
            /\ runDir[DataToBeUsed]
                 = ClaimedText(Lines(ReadText(runDir[DataOld])),
                               Inputs(WithDefaults(procs[1].data)))
            /\ runDir[DataOld] \in Templates)
    /\ [][TemplateKept]_vars

\* C13 witness: the second request of a sequence has ended; the active config
\* held endTime 24000, deltaT 2400 of the first request when the second
\* started, and holds the defaults and viscAh -1 of the second now
C13_Witness ==
    /\ started = 2 /\ EndedAfterPatch(procs[1]) /\ procs[1].data = ReqForcing
    /\ DataToBeUsed \in DOMAIN procs[1].at0.runDir
    /\ procs[1].at0.runDir[DataToBeUsed]
         = " &PARM01\n viscAh=5000.,\n &END\n &PARM03\n endTime=24000.,\n deltaT=2400.,\n &END\n"
    /\ runDir[DataToBeUsed]
         = " &PARM01\n viscAh=-1.,\n &END\n &PARM03\n endTime=12000.,\n deltaT=1200.,\n &END\n"

====
